---- MODULE Spec2Model ----
(***************************************************************************)
(* The frame codec of storage/bamboo (src/storage/bamboo/src/frame.rs):    *)
(* Frame::check and Frame::parse over a Cursor<&[u8]>, with the scanning   *)
(* helpers peek_u8, get_u8, skip, get_line, get_decimal, get_length_info   *)
(* and get_vec_of_length.                                                  *)
(*                                                                         *)
(* A byte is a number in 0..255 and a buffer is a sequence of bytes; the   *)
(* cursor position `pos` is 0-based as in the source, so the byte at       *)
(* position i is buf[i + 1].  The recursion of check and parse over array  *)
(* elements is an explicit call stack, one record per array frame whose    *)
(* element loop is running; one action is one call of check or parse on    *)
(* one frame (an array's header, or a whole frame of any other kind).      *)
(*                                                                         *)
(* A u64 is kept as its decimal numeral (a sequence of digits 0..9 with    *)
(* no leading zero), so that values up to 2^64 - 1 keep their width.  The  *)
(* target is a 64-bit one: usize is as wide as u64, so the conversions     *)
(* try_into() of frame.rs:102, 164 and 179 never fail.  Integer overflow   *)
(* panics in a build with overflow checks and wraps in one without; both   *)
(* builds are modelled.  Vec::with_capacity (frame.rs:180) only allocates  *)
(* and is left out.                                                        *)
(***************************************************************************)
EXTENDS Integers, Sequences, FiniteSets, TLC

VARIABLES
    wire,           \* the bytes the peer sends
    buf,            \* the receive buffer: the prefix of wire received so far
    overflowChecks, \* build profile: TRUE panics on integer overflow, FALSE wraps
    phase,          \* "check", "checked", "parse", "done"
    pos,            \* the cursor position of the running call
    stack,          \* array frames whose element loop is running, outermost first
    leaf,           \* what the most recent call on one frame returned
    checkRes,       \* what the top-level Frame::check returned
    checkEnd,       \* the cursor position it left
    parseRes,       \* what the top-level Frame::parse returned
    parseEnd,       \* the cursor position it left
    parseFrame      \* the Frame it returned, when Ok

vars == <<wire, buf, overflowChecks, phase, pos, stack, leaf,
          checkRes, checkEnd, parseRes, parseEnd, parseFrame>>

----------------------------------------------------------------------------
(* Bytes of the protocol. *)

CR == 13
LF == 10
VARIANT_LENGTH_MARK == 64
SAMPLE_MARK == 45
COMMAND_MARK == 43
COLON == 58
DOLLAR == 36
STAR == 42

Digit(d) == 48 + d
IsDigit(b) == b >= 48 /\ b <= 57

(* Bounds of the model. *)
MaxLen == 16        \* longest wire built from Tokens
MaxPay == 2         \* longest payload after a wide bulk header
StackLimit == 6     \* call depth at which the thread's stack is exhausted

----------------------------------------------------------------------------
(* u64 values as decimal numerals. *)

U64Max == <<1,8,4,4,6,7,4,4,0,7,3,7,0,9,5,5,1,6,1,5>>

RECURSIVE StripZeros(_)
StripZeros(d) ==
    IF Len(d) > 1 /\ d[1] = 0 THEN StripZeros(Tail(d)) ELSE d

RECURSIVE LexLeq(_, _)
LexLeq(a, b) ==
    IF a = <<>> THEN TRUE
    ELSE IF a[1] # b[1] THEN a[1] < b[1]
    ELSE LexLeq(Tail(a), Tail(b))

(* a <= b for numerals *)
NumLeq(a, b) ==
    \/ Len(a) < Len(b)
    \/ Len(a) = Len(b) /\ LexLeq(a, b)

RECURSIVE NatOf(_)
NatOf(d) == IF d = <<>> THEN 0 ELSE 10 * NatOf(SubSeq(d, 1, Len(d) - 1)) + d[Len(d)]

(* Numerals of at most 9 digits are below 10^9 and convert exactly. *)
IsSmall(d) == Len(d) <= 9

(* numeral d > natural k, for k below 10^9 *)
NumGt(d, k) == ~IsSmall(d) \/ NatOf(d) > k

(* usize addition len + 2 (frame.rs:105, frame.rs:165): the sum as a numeral,
   whether it overflows 64 bits, and the wrapped sum when it does. *)
RECURSIVE NumSucc(_)
NumSucc(d) ==
    IF d = <<>> THEN <<1>>
    ELSE IF d[Len(d)] < 9 THEN [d EXCEPT ![Len(d)] = @ + 1]
    ELSE Append(NumSucc(SubSeq(d, 1, Len(d) - 1)), 0)

RECURSIVE NumPred(_)
NumPred(d) ==
    IF d[Len(d)] > 0 THEN StripZeros([d EXCEPT ![Len(d)] = @ - 1])
    ELSE StripZeros(Append(NumPred(SubSeq(d, 1, Len(d) - 1)), 9))

AddTwo(v) ==
    LET sum == NumSucc(NumSucc(v))
    IN  IF NumLeq(sum, U64Max)
        THEN [overflow |-> FALSE, val |-> sum]
        ELSE [overflow |-> TRUE, val |-> IF v = U64Max THEN <<1>> ELSE <<0>>]

----------------------------------------------------------------------------
(* Frames (frame.rs:13-24).  One record shape for every variant: `data` is
   the payload of the byte, string and integer variants (an Integer's u64 as
   its numeral), `elems` the elements of an Array. *)

Frame(kind, data, elems) == [kind |-> kind, data |-> data, elems |-> elems]
NoFrame == Frame("None", <<>>, <<>>)

(* std::string::String::from_utf8 (frame.rs:136, frame.rs:145): whether the
   bytes are well-formed UTF-8. *)
IsCont(b) == b >= 128 /\ b <= 191

RECURSIVE IsUtf8(_)
IsUtf8(s) ==
    IF s = <<>> THEN TRUE
    ELSE LET b == s[1]
             n == Len(s)
         IN  IF b < 128 THEN IsUtf8(Tail(s))
             ELSE IF b >= 194 /\ b <= 223
                  THEN n >= 2 /\ IsCont(s[2]) /\ IsUtf8(SubSeq(s, 3, n))
             ELSE IF b >= 224 /\ b <= 239
                  THEN /\ n >= 3 /\ IsCont(s[2]) /\ IsCont(s[3])
                       /\ (b = 224 => s[2] >= 160)
                       /\ (b = 237 => s[2] <= 159)
                       /\ IsUtf8(SubSeq(s, 4, n))
             ELSE IF b >= 240 /\ b <= 244
                  THEN /\ n >= 4 /\ IsCont(s[2]) /\ IsCont(s[3]) /\ IsCont(s[4])
                       /\ (b = 240 => s[2] >= 144)
                       /\ (b = 244 => s[2] <= 143)
                       /\ IsUtf8(SubSeq(s, 5, n))
             ELSE FALSE

----------------------------------------------------------------------------
(* The cursor helpers (frame.rs:240-322).  b is the buffer, p the position;
   each returns its Result as `res` and the position it leaves as `pos`. *)

Min(S) == CHOOSE x \in S : \A y \in S : x <= y

(* bytes::Buf::remaining of a Cursor: saturating len - position *)
Remaining(b, p) == IF p >= Len(b) THEN 0 ELSE Len(b) - p

peek_u8(b, p) ==
    IF Remaining(b, p) = 0
    THEN [res |-> "Incomplete", val |-> 0, pos |-> p]
    ELSE [res |-> "Ok", val |-> b[p + 1], pos |-> p]

get_u8(b, p) ==
    IF Remaining(b, p) = 0
    THEN [res |-> "Incomplete", val |-> 0, pos |-> p]
    ELSE [res |-> "Ok", val |-> b[p + 1], pos |-> p + 1]

(* n is a numeral *)
skip(b, p, n) ==
    IF NumGt(n, Remaining(b, p))
    THEN [res |-> "Incomplete", pos |-> p]
    ELSE [res |-> "Ok", pos |-> p + NatOf(n)]

(* get_line_end with the scan running to the last byte *)
get_line_end_last(b) == Len(b)

(* the exclusive end of get_line's scan: the second to last byte *)
get_line_end(b) == Len(b) - 1

(* The scan reads b[i] and, when that is \r, b[i + 1], for i from start up to
   end - 1, and stops at the first \r\n.  A read at an index outside the
   buffer is Rust's index panic, and so is every outcome of len() - 1 on an
   empty buffer (the subtraction panics, or wraps and the first read is
   outside the buffer). *)
get_line(b, p) ==
    LET start == p
        end == get_line_end(b)
        IsCr(i) == i < Len(b) /\ b[i + 1] = CR
        Hit(i) == IsCr(i) /\ i + 1 < Len(b) /\ b[i + 2] = LF
        Oob(i) == i >= Len(b) \/ (IsCr(i) /\ i + 1 >= Len(b))
        Stops == {i \in start .. (end - 1) : Hit(i) \/ Oob(i)}
    IN  IF Len(b) = 0
        THEN [res |-> "PanicIndex", line |-> <<>>, pos |-> p]
        ELSE IF Stops = {}
        THEN [res |-> "Incomplete", line |-> <<>>, pos |-> p]
        ELSE LET i == Min(Stops)
             IN  IF Oob(i)
                 THEN [res |-> "PanicIndex", line |-> <<>>, pos |-> p]
                 ELSE [res |-> "Ok", line |-> SubSeq(b, start + 1, i), pos |-> i + 2]

(* atoi::atoi::<u64> (frame.rs:271): the number the leading run of ASCII
   digits spells; None when the text does not start with a digit or the
   number overflows u64.  Bytes after the digits are ignored. *)
RECURSIVE DigitRun(_)
DigitRun(line) ==
    IF line # <<>> /\ IsDigit(line[1])
    THEN <<line[1] - 48>> \o DigitRun(Tail(line))
    ELSE <<>>

atoi(line) ==
    LET run == DigitRun(line)
        v == StripZeros(run)
    IN  IF run # <<>> /\ NumLeq(v, U64Max)
        THEN [some |-> TRUE, val |-> v]
        ELSE [some |-> FALSE, val |-> <<0>>]

get_decimal(b, p) ==
    LET l == get_line(b, p)
        a == atoi(l.line)
    IN  IF l.res # "Ok" THEN [res |-> l.res, val |-> <<0>>, pos |-> l.pos]
        ELSE IF a.some THEN [res |-> "Ok", val |-> a.val, pos |-> l.pos]
        ELSE [res |-> "Other", val |-> <<0>>, pos |-> l.pos]

(* u32::from_le_bytes *)
U32FromLe(b0, b1, b2, b3) == b0 + 256 * b1 + 65536 * b2 + 16777216 * b3

(* Reads the length field at the position and leaves the position alone.
   With the position past the end, len() - start panics, or wraps and the
   slice of the length field panics. *)
get_length_info(b, p) ==
    LET start == p
    IN  IF start > Len(b)
        THEN [res |-> "PanicIndex", val |-> 0, pos |-> p]
        ELSE IF Len(b) - start < 4
        THEN [res |-> "Incomplete", val |-> 0, pos |-> p]
        ELSE LET len_expect == U32FromLe(b[start + 1], b[start + 2],
                                         b[start + 3], b[start + 4])
             IN  IF Len(b) - start < len_expect + 4
                 THEN [res |-> "Incomplete", val |-> 0, pos |-> p]
                 ELSE [res |-> "Ok", val |-> len_expect, pos |-> p]

get_vec_of_length(b, p) ==
    LET start == p + 4
        l == get_length_info(b, p)
        end == l.val + start
    IN  IF l.res # "Ok" THEN [res |-> l.res, data |-> <<>>, pos |-> p]
        ELSE [res |-> "Ok", data |-> SubSeq(b, start + 1, end), pos |-> p]

----------------------------------------------------------------------------
(* The branches of Frame::check (frame.rs:70-122) on one frame, the array
   branch apart.  p is the position after the marker byte; oc is the build's
   overflow-checks setting. *)

(* the position the `@` branch sets: src.set_position(r as u64 + 4 + 1) *)
check_variant_end(p, r) == r + 4 + 1

check_variant(b, p) ==
    LET r == get_length_info(b, p)
    IN  IF r.res # "Ok" THEN [res |-> r.res, pos |-> p]
        ELSE [res |-> "Ok", pos |-> check_variant_end(p, r.val)]

check_line(b, p) ==
    LET l == get_line(b, p) IN [res |-> l.res, pos |-> l.pos]

check_integer(b, p) ==
    LET d == get_decimal(b, p) IN [res |-> d.res, pos |-> d.pos]

check_bulk(b, p, oc) ==
    LET pk == peek_u8(b, p)
        d == get_decimal(b, p)
        n == AddTwo(d.val)
    IN  IF pk.res # "Ok" THEN [res |-> pk.res, pos |-> p]
        ELSE IF pk.val = SAMPLE_MARK THEN skip(b, p, <<4>>)
        ELSE IF d.res # "Ok" THEN [res |-> d.res, pos |-> d.pos]
        ELSE IF n.overflow /\ oc THEN [res |-> "PanicOverflow", pos |-> d.pos]
        ELSE skip(b, d.pos, n.val)

(* The branches of Frame::parse (frame.rs:125-190) on one frame, the array
   branch apart; each also returns the Frame. *)

parse_variant(b, p) ==
    LET v == get_vec_of_length(b, p)
    IN  IF v.res # "Ok" THEN [res |-> v.res, pos |-> v.pos, frame |-> NoFrame]
        ELSE [res |-> "Ok", pos |-> v.pos,
              frame |-> Frame("VariantLength", v.data, <<>>)]

parse_line(b, p, kind) ==
    LET l == get_line(b, p)
    IN  IF l.res # "Ok" THEN [res |-> l.res, pos |-> l.pos, frame |-> NoFrame]
        ELSE IF ~IsUtf8(l.line) THEN [res |-> "Other", pos |-> l.pos, frame |-> NoFrame]
        ELSE [res |-> "Ok", pos |-> l.pos, frame |-> Frame(kind, l.line, <<>>)]

parse_integer(b, p) ==
    LET d == get_decimal(b, p)
    IN  IF d.res # "Ok" THEN [res |-> d.res, pos |-> d.pos, frame |-> NoFrame]
        ELSE [res |-> "Ok", pos |-> d.pos, frame |-> Frame("Integer", d.val, <<>>)]

parse_bulk(b, p, oc) ==
    LET pk == peek_u8(b, p)
        l == get_line(b, p)
        d == get_decimal(b, p)
        len == d.val
        n == AddTwo(len)
        s == skip(b, d.pos, n.val)
        Fail(res, at) == [res |-> res, pos |-> at, frame |-> NoFrame]
    IN  IF pk.res # "Ok" THEN Fail(pk.res, p)
        ELSE IF pk.val = SAMPLE_MARK
        THEN IF l.res # "Ok" THEN Fail(l.res, l.pos)
             ELSE IF l.line # <<SAMPLE_MARK, Digit(1)>> THEN Fail("Other", l.pos)
             ELSE [res |-> "Ok", pos |-> l.pos, frame |-> Frame("Null", <<>>, <<>>)]
        ELSE IF d.res # "Ok" THEN Fail(d.res, d.pos)
        ELSE IF n.overflow /\ oc THEN Fail("PanicOverflow", d.pos)
        ELSE IF NumGt(n.val, Remaining(b, d.pos)) THEN Fail("Incomplete", d.pos)
        \* &src.chunk()[..len]: a slice longer than the chunk panics
        ELSE IF NumGt(len, Remaining(b, d.pos)) THEN Fail("PanicSlice", d.pos)
        ELSE [res |-> s.res, pos |-> s.pos,
              frame |-> Frame("Bulk", SubSeq(b, d.pos + 1, d.pos + NatOf(len)), <<>>)]

----------------------------------------------------------------------------
(* The call stack of the array loops (frame.rs:112-114, frame.rs:182-184).
   An entry is one array frame: `start` the position of its `*`, `left` the
   iterations of its loop still to run (a numeral), `out` the elements parse
   has pushed. *)

Front(st) == SubSeq(st, 1, Len(st) - 1)

(* The call on an element returned Ok(f): the loop of the innermost array
   goes on, or ends and that array's call returns Ok to its own caller. *)
RECURSIVE Unwind(_, _)
Unwind(st, f) ==
    IF st = <<>> THEN [stack |-> <<>>, fin |-> TRUE, frame |-> f]
    ELSE LET top == st[Len(st)]
             out == IF f = NoFrame THEN top.out ELSE Append(top.out, f)
             left == NumPred(top.left)
         IN  IF left = <<0>>
             THEN Unwind(Front(st),
                         IF f = NoFrame THEN NoFrame ELSE Frame("Array", <<>>, out))
             ELSE [stack |-> Append(Front(st), [top EXCEPT !.left = left, !.out = out]),
                   fin |-> FALSE, frame |-> f]

(* The call on the frame at pos returned r.  An Err returns through every
   enclosing array (the ? of frame.rs:113 and frame.rs:183). *)
Returns(r) ==
    LET u == IF r.res = "Ok" THEN Unwind(stack, r.frame)
             ELSE [stack |-> <<>>, fin |-> TRUE, frame |-> NoFrame]
    IN  /\ leaf' = [at |-> pos, res |-> r.res, pos |-> r.pos, frame |-> r.frame]
        /\ pos' = r.pos
        /\ stack' = u.stack
        /\ IF ~u.fin
           THEN UNCHANGED <<phase, checkRes, checkEnd, parseRes, parseEnd, parseFrame>>
           ELSE IF phase = "check"
           THEN /\ phase' = "checked"
                /\ checkRes' = r.res
                /\ checkEnd' = r.pos
                /\ UNCHANGED <<parseRes, parseEnd, parseFrame>>
           ELSE /\ phase' = "done"
                /\ parseRes' = r.res
                /\ parseEnd' = r.pos
                /\ parseFrame' = u.frame
                /\ UNCHANGED <<checkRes, checkEnd>>
        /\ UNCHANGED <<wire, buf, overflowChecks>>

(* The array at pos declares `count` elements and its loop starts at p. *)
Enters(count, p) ==
    /\ stack' = Append(stack, [start |-> pos, left |-> count, out |-> <<>>])
    /\ pos' = p
    /\ UNCHANGED <<wire, buf, overflowChecks, phase, leaf,
                   checkRes, checkEnd, parseRes, parseEnd, parseFrame>>

Checked(r) == [res |-> r.res, pos |-> r.pos, frame |-> NoFrame]

Marker == get_u8(buf, pos)
Marked(m) == Marker.res = "Ok" /\ Marker.val = m

----------------------------------------------------------------------------
(* Frame::check, one action per branch of its match. *)

CheckEmpty ==
    /\ phase = "check"
    /\ Marker.res # "Ok"
    /\ Returns([res |-> Marker.res, pos |-> Marker.pos, frame |-> NoFrame])

CheckVariantLength ==
    /\ phase = "check"
    /\ Marked(VARIANT_LENGTH_MARK)
    /\ Returns(Checked(check_variant(buf, Marker.pos)))

CheckSample ==
    /\ phase = "check"
    /\ Marked(SAMPLE_MARK)
    /\ Returns(Checked(check_line(buf, Marker.pos)))

CheckCommand ==
    /\ phase = "check"
    /\ Marked(COMMAND_MARK)
    /\ Returns(Checked(check_line(buf, Marker.pos)))

CheckInteger ==
    /\ phase = "check"
    /\ Marked(COLON)
    /\ Returns(Checked(check_integer(buf, Marker.pos)))

CheckBulk ==
    /\ phase = "check"
    /\ Marked(DOLLAR)
    /\ Returns(Checked(check_bulk(buf, Marker.pos, overflowChecks)))

CheckArray ==
    /\ phase = "check"
    /\ Marked(STAR)
    /\ LET d == get_decimal(buf, Marker.pos)
       IN  IF d.res # "Ok" THEN Returns(Checked(d))
           ELSE IF d.val = <<0>> THEN Returns(Checked(d))
           ELSE IF Len(stack) >= StackLimit
                THEN Returns([res |-> "StackOverflow", pos |-> d.pos, frame |-> NoFrame])
           ELSE Enters(d.val, d.pos)

CheckInvalid ==
    /\ phase = "check"
    /\ Marker.res = "Ok"
    /\ Marker.val \notin {VARIANT_LENGTH_MARK, SAMPLE_MARK, COMMAND_MARK,
                          COLON, DOLLAR, STAR}
    /\ Returns([res |-> "Other", pos |-> Marker.pos, frame |-> NoFrame])

(* The caller makes a new cursor at position 0 for parse. *)
StartParse ==
    /\ phase = "checked"
    /\ phase' = "parse"
    /\ pos' = 0
    /\ stack' = <<>>
    /\ UNCHANGED <<wire, buf, overflowChecks, leaf,
                   checkRes, checkEnd, parseRes, parseEnd, parseFrame>>

(* Frame::parse, one action per branch of its match. *)

ParseEmpty ==
    /\ phase = "parse"
    /\ Marker.res # "Ok"
    /\ Returns([res |-> Marker.res, pos |-> Marker.pos, frame |-> NoFrame])

ParseVariantLength ==
    /\ phase = "parse"
    /\ Marked(VARIANT_LENGTH_MARK)
    /\ Returns(parse_variant(buf, Marker.pos))

ParseSimple ==
    /\ phase = "parse"
    /\ Marked(COMMAND_MARK)
    /\ Returns(parse_line(buf, Marker.pos, "Simple"))

ParseError ==
    /\ phase = "parse"
    /\ Marked(SAMPLE_MARK)
    /\ Returns(parse_line(buf, Marker.pos, "Error"))

ParseInteger ==
    /\ phase = "parse"
    /\ Marked(COLON)
    /\ Returns(parse_integer(buf, Marker.pos))

ParseBulk ==
    /\ phase = "parse"
    /\ Marked(DOLLAR)
    /\ Returns(parse_bulk(buf, Marker.pos, overflowChecks))

ParseArray ==
    /\ phase = "parse"
    /\ Marked(STAR)
    /\ LET d == get_decimal(buf, Marker.pos)
       IN  IF d.res # "Ok"
           THEN Returns([res |-> d.res, pos |-> d.pos, frame |-> NoFrame])
           ELSE IF d.val = <<0>>
           THEN Returns([res |-> "Ok", pos |-> d.pos, frame |-> Frame("Array", <<>>, <<>>)])
           ELSE IF Len(stack) >= StackLimit
                THEN Returns([res |-> "StackOverflow", pos |-> d.pos, frame |-> NoFrame])
           ELSE Enters(d.val, d.pos)

(* `_ => unimplemented!()` *)
ParseUnimplemented ==
    /\ phase = "parse"
    /\ Marker.res = "Ok"
    /\ Marker.val \notin {VARIANT_LENGTH_MARK, SAMPLE_MARK, COMMAND_MARK,
                          COLON, DOLLAR, STAR}
    /\ Returns([res |-> "PanicUnimplemented", pos |-> Marker.pos, frame |-> NoFrame])

----------------------------------------------------------------------------
(* The inputs: the bytes on the wire are frames and pieces of frames put one
   after another, and the receive buffer holds any prefix of them. *)

Arr(n) == <<STAR, Digit(n), CR, LF>>

Tokens ==
    { Arr(0), Arr(1), Arr(2), Arr(3),
      <<COLON, Digit(7), CR, LF>>,                          \* :7
      <<COLON, Digit(1), Digit(2), 120, CR, LF>>,           \* :12x
      <<DOLLAR, Digit(1), CR, LF, 97, CR, LF>>,             \* $1 a
      <<DOLLAR, SAMPLE_MARK, Digit(1), CR, LF>>,            \* $-1
      <<DOLLAR, SAMPLE_MARK, Digit(2), CR, LF>>,            \* $-2
      <<COMMAND_MARK, STAR, Digit(2), CR, LF>>,             \* +*2
      <<SAMPLE_MARK, 255, CR, LF>>,                         \* - and a byte that is not UTF-8
      <<COMMAND_MARK, 195, 169, CR, LF>>,                   \* + and a two-byte UTF-8 character
      <<VARIANT_LENGTH_MARK, 0, 0, 0, 0>>,                  \* @ of length 0
      <<VARIANT_LENGTH_MARK, 1, 0, 0, 0, 97>>,              \* @ of length 1
      <<38, CR, LF>> }                                      \* &

TokenWires ==
    LET Step(S) == S \cup {x \in {w \o t : w \in S, t \in Tokens} : Len(x) <= MaxLen}
        RECURSIVE Grow(_, _)
        Grow(S, k) == IF k = 0 THEN S ELSE Grow(Step(S), k - 1)
    IN  Grow({<<>>}, MaxLen \div 3)

(* Bulk headers whose declared length is at the top of the u64 range, and
   one that does not fit, each followed by MaxPay bytes. *)
WideDecimals ==
    { U64Max, NumPred(U64Max), NumPred(NumPred(U64Max)), NumSucc(U64Max) }

WideWires ==
    { <<DOLLAR>> \o [i \in 1..Len(d) |-> Digit(d[i])] \o <<CR, LF>>
        \o [i \in 1..MaxPay |-> 97] : d \in WideDecimals }

Wires == TokenWires \cup WideWires

NoLeaf == [at |-> 0, res |-> "None", pos |-> 0, frame |-> NoFrame]

Init ==
    /\ wire \in Wires
    /\ \E n \in 0..Len(wire) : buf = SubSeq(wire, 1, n)
    /\ overflowChecks \in BOOLEAN
    /\ phase = "check"
    /\ pos = 0
    /\ stack = <<>>
    /\ leaf = NoLeaf
    /\ checkRes = "Pending"
    /\ checkEnd = 0
    /\ parseRes = "Pending"
    /\ parseEnd = 0
    /\ parseFrame = NoFrame

Next ==
    \/ CheckEmpty
    \/ CheckVariantLength
    \/ CheckSample
    \/ CheckCommand
    \/ CheckInteger
    \/ CheckBulk
    \/ CheckArray
    \/ CheckInvalid
    \/ StartParse
    \/ ParseEmpty
    \/ ParseVariantLength
    \/ ParseSimple
    \/ ParseError
    \/ ParseInteger
    \/ ParseBulk
    \/ ParseArray
    \/ ParseUnimplemented

Spec == Init /\ [][Next]_vars

----------------------------------------------------------------------------
(* The wire format as the specification's table of encodings gives it: the
   well-formed frame that starts at position p of b, with the position just
   past it and the Frame it encodes; ok is FALSE when no complete well-formed
   frame starts there. *)

(* the index of the first \r\n at or after p, or -1 *)
FirstCrlf(b, p) ==
    LET S == {i \in p .. (Len(b) - 2) : b[i + 1] = CR /\ b[i + 2] = LF}
    IN  IF S = {} THEN -1 ELSE Min(S)

(* the text is a decimal literal of a u64 and nothing else *)
IsDecimalU64(line) ==
    /\ line # <<>>
    /\ \A i \in 1..Len(line) : IsDigit(line[i])
    /\ NumLeq(StripZeros([i \in 1..Len(line) |-> line[i] - 48]), U64Max)

DecimalOf(line) == StripZeros([i \in 1..Len(line) |-> line[i] - 48])

NotWf == [ok |-> FALSE, end |-> 0, frame |-> NoFrame]

RECURSIVE WellFormed(_, _), WellFormedSeq(_, _, _, _)
WellFormed(b, p) ==
    IF p >= Len(b) THEN NotWf
    ELSE LET m == b[p + 1]
             e == FirstCrlf(b, p + 1)
             line == SubSeq(b, p + 2, e)
         IN  IF m = VARIANT_LENGTH_MARK
             THEN IF p + 5 > Len(b) THEN NotWf
                  ELSE LET L == U32FromLe(b[p + 2], b[p + 3], b[p + 4], b[p + 5])
                       IN  IF p + 5 + L > Len(b) THEN NotWf
                           ELSE [ok |-> TRUE, end |-> p + 5 + L,
                                 frame |-> Frame("VariantLength",
                                                 SubSeq(b, p + 6, p + 5 + L), <<>>)]
             ELSE IF e = -1 THEN NotWf
             ELSE IF m = COMMAND_MARK \/ m = SAMPLE_MARK
             THEN IF ~IsUtf8(line) THEN NotWf
                  ELSE [ok |-> TRUE, end |-> e + 2,
                        frame |-> Frame(IF m = COMMAND_MARK THEN "Simple" ELSE "Error",
                                        line, <<>>)]
             ELSE IF m = COLON
             THEN IF ~IsDecimalU64(line) THEN NotWf
                  ELSE [ok |-> TRUE, end |-> e + 2,
                        frame |-> Frame("Integer", DecimalOf(line), <<>>)]
             ELSE IF m = DOLLAR
             THEN IF line = <<SAMPLE_MARK, Digit(1)>>
                  THEN [ok |-> TRUE, end |-> e + 2, frame |-> Frame("Null", <<>>, <<>>)]
                  ELSE IF ~IsDecimalU64(line) \/ ~IsSmall(DecimalOf(line)) THEN NotWf
                  ELSE LET L == NatOf(DecimalOf(line))
                       IN  IF e + 2 + L + 2 > Len(b) THEN NotWf
                           ELSE IF b[e + 2 + L + 1] # CR \/ b[e + 2 + L + 2] # LF THEN NotWf
                           ELSE [ok |-> TRUE, end |-> e + 2 + L + 2,
                                 frame |-> Frame("Bulk", SubSeq(b, e + 3, e + 2 + L), <<>>)]
             ELSE IF m = STAR
             THEN IF ~IsDecimalU64(line) \/ ~IsSmall(DecimalOf(line)) THEN NotWf
                  ELSE WellFormedSeq(b, e + 2, NatOf(DecimalOf(line)), <<>>)
             ELSE NotWf

WellFormedSeq(b, p, n, out) ==
    IF n = 0 THEN [ok |-> TRUE, end |-> p, frame |-> Frame("Array", <<>>, out)]
    ELSE LET f == WellFormed(b, p)
         IN  IF ~f.ok THEN NotWf
             ELSE WellFormedSeq(b, f.end, n - 1, Append(out, f.frame))

(* the wire is exactly one well-formed frame *)
WireIsFrame == WellFormed(wire, 0).ok /\ WellFormed(wire, 0).end = Len(wire)

(* the whole of the wire has been received *)
Whole == buf = wire

----------------------------------------------------------------------------
(* The claims. *)

(* C1: for any byte buffer, Frame::check from position 0 returns Ok if and
   only if Frame::parse from position 0 over the same buffer returns
   Ok(frame). *)
C1Claim ==
    phase = "done" => ((checkRes = "Ok") <=> (parseRes = "Ok"))

(* C2: whenever check and parse both succeed from the same position on the
   same buffer, they leave the cursor at the same final position. *)
C2Claim ==
    (phase = "done" /\ checkRes = "Ok" /\ parseRes = "Ok") => checkEnd = parseEnd

(* C3: for a wire that is one valid encoded frame, the decode attempt on
   every strict prefix reports Incomplete, and the attempt on the whole
   succeeds with the frame the wire encodes. *)
C3Claim ==
    WireIsFrame =>
        /\ (~Whole /\ phase # "check") => checkRes = "Incomplete"
        /\ (Whole /\ phase = "done") =>
               /\ checkRes = "Ok"
               /\ parseRes = "Ok"
               /\ parseFrame = WellFormed(wire, 0).frame

(* C4: for an array frame *N followed by N well-formed sub-frames, check
   succeeds and parse returns Array of exactly the N decoded sub-frames in
   wire order, with the cursor just past the last sub-frame. *)
C4Claim ==
    (WireIsFrame /\ wire[1] = STAR /\ Whole /\ phase = "done") =>
        /\ checkRes = "Ok"
        /\ parseRes = "Ok"
        /\ parseFrame.kind = "Array"
        /\ parseFrame.elems = WellFormed(wire, 0).frame.elems
        /\ Len(parseFrame.elems) = NatOf(DecimalOf(SubSeq(wire, 2, FirstCrlf(wire, 1))))
        /\ parseEnd = Len(wire)

(* A `$` frame that is not the null form starts at the cursor and its length
   line, which ends before position h, declares the u64 L. *)
BulkHeaderAt(b, p) ==
    /\ p + 1 < Len(b)
    /\ b[p + 1] = DOLLAR
    /\ b[p + 2] # SAMPLE_MARK
    /\ FirstCrlf(b, p + 1) # -1
    /\ IsDecimalU64(SubSeq(b, p + 2, FirstCrlf(b, p + 1)))

BulkBodyStart(b, p) == FirstCrlf(b, p + 1) + 2
BulkDeclared(b, p) == DecimalOf(SubSeq(b, p + 2, FirstCrlf(b, p + 1)))

(* at least L + 2 bytes follow the length line *)
BulkBuffered(b, p) ==
    ~NumGt(NumSucc(NumSucc(BulkDeclared(b, p))), Len(b) - BulkBodyStart(b, p))

(* C5: parse of a `$` frame at any offset returns Bulk of exactly the L bytes
   after the length line and leaves the cursor just past the trailing CRLF;
   if fewer than L + 2 bytes follow the length line it returns Incomplete. *)
C5Claim ==
    [][(phase = "parse" /\ BulkHeaderAt(buf, pos)) =>
         LET h == BulkBodyStart(buf, pos)
             L == BulkDeclared(buf, pos)
         IN  IF BulkBuffered(buf, pos)
             THEN /\ leaf'.res = "Ok"
                  /\ leaf'.frame = Frame("Bulk", SubSeq(buf, h + 1, h + NatOf(L)), <<>>)
                  /\ pos' = h + NatOf(L) + 2
             ELSE leaf'.res = "Incomplete"]_vars

(* C6: for the integer marker, check and parse return a malformed-data error
   whenever the CRLF-terminated line is not entirely a decimal u64. *)
C6Claim ==
    [][(/\ phase \in {"check", "parse"}
        /\ Marked(COLON)
        /\ FirstCrlf(buf, pos + 1) # -1
        /\ ~IsDecimalU64(SubSeq(buf, pos + 2, FirstCrlf(buf, pos + 1))))
       => leaf'.res = "Other"]_vars

(* C7: within one top-level call of check or parse the cursor position never
   decreases. *)
C7Claim ==
    [][(phase \in {"check", "parse"}) => (pos' >= pos)]_vars

(* C8: check terminates on every finite buffer: no array frame is entered
   again at a position where an enclosing array frame started, and the
   recursion never exhausts the stack. *)
C8Claim ==
    /\ \A i, j \in 1..Len(stack) : i # j => stack[i].start # stack[j].start
    /\ checkRes # "StackOverflow"

(* C9: for a `$` frame that declares any u64 L, check returns Ok only if at
   least L + 2 bytes are buffered after the length line, skipping exactly
   those, and returns Incomplete otherwise. *)
C9Claim ==
    [][(phase = "check" /\ BulkHeaderAt(buf, pos)) =>
         IF BulkBuffered(buf, pos)
         THEN /\ leaf'.res = "Ok"
              /\ pos' = BulkBodyStart(buf, pos) + NatOf(BulkDeclared(buf, pos)) + 2
         ELSE leaf'.res = "Incomplete"]_vars

(* C10: in every state of check and parse the cursor position lies in
   0..Len(buf), and no helper reads the buffer at an index outside it. *)
C10Theorem ==
    /\ pos \in 0..Len(buf)
    /\ leaf.pos \in 0..Len(buf)
    /\ checkEnd \in 0..Len(buf)
    /\ parseEnd \in 0..Len(buf)
    /\ leaf.res # "PanicIndex"

(* The `@` branch of check, on a frame that is not at the start of the
   buffer, has set the position, to one before the frame. *)
C10Witness ==
    /\ leaf.res = "Ok"
    /\ leaf.at > 0
    /\ buf[leaf.at + 1] = VARIANT_LENGTH_MARK
    /\ leaf.pos < leaf.at
    /\ pos = leaf.pos

====
